---------------------------- MODULE Spec2Model ----------------------------
(***************************************************************************)
(* Numerical integration notebook (lecture-08.ipynb): its three non-empty  *)
(* code cells (Trapezoidal rule, Trapezoidal rule with the Euler-McLaurin  *)
(* error estimate, Simpson rule) executed in one Python kernel whose       *)
(* module namespace they share.                                            *)
(*                                                                         *)
(* Every Python number is a rational [n, d] in lowest terms with d > 0,    *)
(* and sums and products are exact.  A kernel runs in one of two           *)
(* arithmetics: "exact", where arange's length is the exact                *)
(* ceil((stop-start)/step), and "binary64", where that length is computed  *)
(* as numpy computes it, on IEEE-754 doubles rounded to nearest-even.      *)
(***************************************************************************)
EXTENDS Integers, Sequences, FiniteSets, TLC

VARIABLES ns, last

vars == <<ns, last>>

-----------------------------------------------------------------------------
(* Bounds of the model.                                                    *)

\* largest bin count N a cell is run with in a fresh kernel
MaxN == 10
\* interval endpoints a, b range over 0..MaxB
MaxB == 2
\* a notebook session edits N within 0..MaxEditN (besides the N as written)
MaxEditN == 2

-----------------------------------------------------------------------------
(* Exact rational arithmetic.                                              *)

Abs(i) == IF i < 0 THEN -i ELSE i

RECURSIVE Gcd(_, _)
Gcd(i, j) == IF j = 0 THEN i ELSE Gcd(j, i % j)

\* the rational n/d (d # 0) in lowest terms with a positive denominator
Rat(n, d) ==
  LET g == Gcd(Abs(n), Abs(d))
      s == IF d < 0 THEN -1 ELSE 1
  IN  [n |-> s * (n \div g), d |-> s * (d \div g)]

Int2Rat(i) == [n |-> i, d |-> 1]

RAdd(p, q) ==
  LET g == Gcd(p.d, q.d)
  IN  Rat(p.n * (q.d \div g) + q.n * (p.d \div g), (p.d \div g) * q.d)

RNeg(p) == [n |-> -p.n, d |-> p.d]

RSub(p, q) == RAdd(p, RNeg(q))

RMul(p, q) ==
  LET g1 == Gcd(Abs(p.n), q.d)
      g2 == Gcd(Abs(q.n), p.d)
  IN  IF p.n = 0 \/ q.n = 0 THEN Int2Rat(0)
      ELSE [n |-> (p.n \div g1) * (q.n \div g2),
            d |-> (p.d \div g2) * (q.d \div g1)]

\* p / q for q # 0
RDiv(p, q) == RMul(p, Rat(q.d, q.n))

RAbs(p) == [n |-> Abs(p.n), d |-> p.d]

\* a/b < c/d for b, d > 0, by comparing the continued fractions: no product
\* is formed, so the comparison stays within the integers' range
RECURSIVE FracLt(_, _, _, _)
FracLt(a, b, c, d) ==
  IF a \div b # c \div d THEN a \div b < c \div d
  ELSE IF c % d = 0 THEN FALSE
  ELSE IF a % b = 0 THEN TRUE
  ELSE FracLt(d, c % d, b, a % b)

RLt(p, q) == FracLt(p.n, p.d, q.n, q.d)

RLe(p, q) == ~FracLt(q.n, q.d, p.n, p.d)

\* ceil(p)
RCeil(p) == -((-p.n) \div p.d)

RECURSIVE RPow(_, _)
RPow(p, k) == IF k = 0 THEN Int2Rat(1) ELSE RMul(p, RPow(p, k - 1))

-----------------------------------------------------------------------------
(* Python floats (IEEE-754 binary64), as far as numpy.arange depends on    *)
(* them: the length of arange(start, stop, step) is                        *)
(* ceil((stop - start)/step) computed on floats, each operation rounded to *)
(* 53 significant bits, ties to even.  Mantissas do not fit TLC's          *)
(* integers, so naturals are little-endian sequences of 15-bit limbs with  *)
(* no leading zero limb (<<>> is 0), and a float is [s, m, e] with the     *)
(* value s * m * 2^e (s = 1 or -1, m such a natural).                      *)

MantissaBits == 53
LimbBits == 15
Limb == 32768
Pow2 == <<1, 2, 4, 8, 16, 32, 64, 128, 256, 512, 1024, 2048, 4096, 8192, 16384>>

\* number of bits of 0 <= i < Limb
IntBitLen(i) == Cardinality({j \in 1..LimbBits : Pow2[j] <= i})

RECURSIVE BFromInt(_)
BFromInt(i) == IF i = 0 THEN <<>> ELSE <<i % Limb>> \o BFromInt(i \div Limb)

RECURSIVE BTrim(_)
BTrim(x) ==
  IF x = <<>> \/ x[Len(x)] # 0 THEN x ELSE BTrim(SubSeq(x, 1, Len(x) - 1))

BLimb(x, i) == IF i <= Len(x) THEN x[i] ELSE 0

\* x * s for 0 <= s < Limb, from limb i on with a carry
RECURSIVE BMulFrom(_, _, _, _)
BMulFrom(x, s, i, carry) ==
  IF i > Len(x) THEN BFromInt(carry)
  ELSE LET t == x[i] * s + carry
       IN  <<t % Limb>> \o BMulFrom(x, s, i + 1, t \div Limb)

BMulSmall(x, s) == BTrim(BMulFrom(x, s, 1, 0))

\* x * 2^k
BShl(x, k) ==
  IF x = <<>> THEN <<>>
  ELSE [i \in 1..(k \div LimbBits) |-> 0] \o BMulSmall(x, Pow2[(k % LimbBits) + 1])

RECURSIVE BAddFrom(_, _, _, _)
BAddFrom(x, y, i, carry) ==
  IF i > Len(x) /\ i > Len(y) THEN BFromInt(carry)
  ELSE LET t == BLimb(x, i) + BLimb(y, i) + carry
       IN  <<t % Limb>> \o BAddFrom(x, y, i + 1, t \div Limb)

BAdd(x, y) == BAddFrom(x, y, 1, 0)

\* x - y for x >= y
RECURSIVE BSubFrom(_, _, _, _)
BSubFrom(x, y, i, borrow) ==
  IF i > Len(x) THEN <<>>
  ELSE LET t == x[i] - BLimb(y, i) - borrow
       IN  <<t % Limb>> \o BSubFrom(x, y, i + 1, IF t < 0 THEN 1 ELSE 0)

BSub(x, y) == BTrim(BSubFrom(x, y, 1, 0))

\* x <= y
BLeq(x, y) ==
  \/ Len(x) < Len(y)
  \/ /\ Len(x) = Len(y)
     /\ \A i \in DOMAIN x : x[i] > y[i] => \E j \in (i + 1)..Len(x) : x[j] < y[j]

\* quotient and remainder of x by 0 < d < 2 * Limb, from limb i downwards
RECURSIVE BDivFrom(_, _, _, _)
BDivFrom(x, d, i, rem) ==
  IF i = 0 THEN [q |-> <<>>, r |-> rem]
  ELSE LET t == rem * Limb + x[i]
           rest == BDivFrom(x, d, i - 1, t % d)
       IN  [q |-> Append(rest.q, t \div d), r |-> rest.r]

BDivSmall(x, d) ==
  LET res == BDivFrom(x, d, Len(x), 0) IN [q |-> BTrim(res.q), r |-> res.r]

BBitLen(x) ==
  IF x = <<>> THEN 0 ELSE LimbBits * (Len(x) - 1) + IntBitLen(x[Len(x)])

BOdd(x) == x # <<>> /\ x[1] % 2 = 1

\* floor(x / 2^k), and whether a dropped bit was set
BShr(x, k) ==
  LET limbs == k \div LimbBits
      low == SubSeq(x, 1, IF limbs < Len(x) THEN limbs ELSE Len(x))
      high == SubSeq(x, limbs + 1, Len(x))
      res == BDivSmall(high, Pow2[(k % LimbBits) + 1])
  IN  [q |-> res.q, sticky |-> res.r # 0 \/ \E i \in DOMAIN low : low[i] # 0]

\* s * m * 2^e (plus a nonzero part below the last bit of m when sticky)
\* rounded to MantissaBits bits, ties to even
Round64(s, m, e, sticky) ==
  LET drop == BBitLen(m) - MantissaBits
  IN  IF drop <= 0 THEN [s |-> s, m |-> m, e |-> e]
      ELSE LET sh == BShr(m, drop - 1)
               q == BDivSmall(sh.q, 2).q
               up == BOdd(sh.q) /\ (sh.sticky \/ sticky \/ BOdd(q))
           IN  [s |-> s, m |-> IF up THEN BAdd(q, <<1>>) ELSE q, e |-> e + drop]

\* the float nearest to the rational r (a float literal, an int converted to
\* float, the true division of two ints)
Float(r) ==
  IF r.n = 0 THEN [s |-> 1, m |-> <<>>, e |-> 0]
  ELSE LET res == BDivSmall(BShl(BFromInt(Abs(r.n)), 6 * LimbBits), r.d)
       IN  Round64(IF r.n < 0 THEN -1 ELSE 1, res.q, -(6 * LimbBits), res.r # 0)

\* x + y on floats
FAdd(x, y) ==
  LET e == IF x.e < y.e THEN x.e ELSE y.e
      mx == BShl(x.m, x.e - e)
      my == BShl(y.m, y.e - e)
  IN  IF x.s = y.s THEN Round64(x.s, BAdd(mx, my), e, FALSE)
      ELSE IF mx = my THEN [s |-> 1, m |-> <<>>, e |-> 0]
      ELSE IF BLeq(my, mx) THEN Round64(x.s, BSub(mx, my), e, FALSE)
      ELSE Round64(y.s, BSub(my, mx), e, FALSE)

\* x - y on floats
FSub(x, y) == FAdd(x, [y EXCEPT !.s = -y.s])

\* 2*x on floats: exact
FDouble(x) == [x EXCEPT !.e = @ + 1]

\* x/y, rounded to a float, is at most the integer c >= 1 (x, y > 0): the
\* quotient is at most c plus half the spacing of the floats above c
QuotientAtMost(x, y, c) ==
  LET k == MantissaBits - (IntBitLen(c) - 1)
      bound == BAdd(BShl(BMulSmall(y.m, c), k), y.m)
      ex == x.e + k
      e == IF ex < y.e THEN ex ELSE y.e
  IN  BLeq(BShl(x.m, ex - e), BShl(bound, y.e - e))

\* ceil(x/y) on floats (y # 0), 0 when that is not positive; cap is an
\* integer above the quotient
FCeilDiv(x, y, cap) ==
  IF x.m = <<>> \/ x.s # y.s THEN 0
  ELSE 1 + Cardinality({c \in 1..cap : ~QuotientAtMost(x, y, c)})

-----------------------------------------------------------------------------
(* Python's printf-style number formatting ("%5.4e", "%5.6f"), applied to  *)
(* the exact value: decimal digits by long division, the last one rounded  *)
(* half-to-even.                                                           *)

Digit == <<"0", "1", "2", "3", "4", "5", "6", "7", "8", "9">>

RECURSIVE DigitStr(_)
DigitStr(ds) == IF ds = <<>> THEN "" ELSE Digit[Head(ds) + 1] \o DigitStr(Tail(ds))

\* the next k decimal digits of rem/d (0 <= rem < d), and the remainder left
RECURSIVE LongDiv(_, _, _)
LongDiv(rem, d, k) ==
  IF k = 0 THEN [digs |-> <<>>, rem |-> rem]
  ELSE LET t    == rem * 10
           rest == LongDiv(t % d, d, k - 1)
       IN  [digs |-> <<t \div d>> \o rest.digs, rem |-> rest.rem]

\* ds + 1 in the last place; carry is set when every digit was 9
RECURSIVE IncDigits(_)
IncDigits(ds) ==
  IF ds = <<>> THEN [digs |-> <<>>, carry |-> TRUE]
  ELSE LET k == Len(ds)
           init == SubSeq(ds, 1, k - 1)
       IN  IF ds[k] < 9
           THEN [digs |-> Append(init, ds[k] + 1), carry |-> FALSE]
           ELSE LET r == IncDigits(init)
                IN  [digs |-> Append(r.digs, 0), carry |-> r.carry]

\* round half to even: lastDigit is the digit the remainder follows
RoundsUp(rem, d, lastDigit) ==
  \/ 2 * rem > d
  \/ 2 * rem = d /\ lastDigit % 2 = 1

\* largest k with 10^k <= n/d, for n/d >= 1
RECURSIVE ExpUp(_, _, _)
ExpUp(n, d, k) == IF n >= 10 * d THEN ExpUp(n, 10 * d, k + 1) ELSE k

\* largest k (negative) with 10^k <= n/d, for 0 < n/d < 1
RECURSIVE ExpDown(_, _, _)
ExpDown(n, d, k) == IF n < d THEN ExpDown(10 * n, d, k - 1) ELSE k

RECURSIVE Pow10(_)
Pow10(k) == IF k = 0 THEN 1 ELSE 10 * Pow10(k - 1)

ExpStr(e) ==
  (IF e < 0 THEN "e-" ELSE "e+")
    \o (IF Abs(e) < 10 THEN "0" ELSE "") \o ToString(Abs(e))

\* "%<w>.<prec>e" % r
FmtE(r, prec) ==
  LET m  == RAbs(r)
      e  == IF m.n = 0 THEN 0
            ELSE IF m.n >= m.d THEN ExpUp(m.n, m.d, 0) ELSE ExpDown(m.n, m.d, 0)
      n1 == IF e < 0 THEN m.n * Pow10(-e) ELSE m.n
      d1 == IF e > 0 THEN m.d * Pow10(e) ELSE m.d
      ld == LongDiv(n1 % d1, d1, prec)
      ds == <<n1 \div d1>> \o ld.digs
      up == RoundsUp(ld.rem, d1, ds[Len(ds)])
      inc == IncDigits(ds)
      fin == IF ~up THEN [digs |-> ds, e |-> e]
             ELSE IF inc.carry
                  THEN [digs |-> <<1>> \o SubSeq(inc.digs, 1, prec), e |-> e + 1]
                  ELSE [digs |-> inc.digs, e |-> e]
  IN  (IF r.n < 0 THEN "-" ELSE "")
        \o Digit[fin.digs[1] + 1]
        \o (IF prec > 0 THEN "." ELSE "")
        \o DigitStr(Tail(fin.digs))
        \o ExpStr(fin.e)

\* "%<w>.<prec>f" % r  (the results are wider than the field width w)
FmtF(r, prec) ==
  LET m  == RAbs(r)
      ip == m.n \div m.d
      ld == LongDiv(m.n % m.d, m.d, prec)
      up == RoundsUp(ld.rem, m.d, IF prec = 0 THEN ip ELSE ld.digs[prec])
      inc == IncDigits(ld.digs)
      fin == IF ~up THEN [ip |-> ip, digs |-> ld.digs]
             ELSE IF inc.carry THEN [ip |-> ip + 1, digs |-> inc.digs]
                  ELSE [ip |-> ip, digs |-> inc.digs]
  IN  (IF r.n < 0 THEN "-" ELSE "")
        \o ToString(fin.ip)
        \o (IF prec > 0 THEN "." ELSE "")
        \o DigitStr(fin.digs)

-----------------------------------------------------------------------------
(* The Python and numpy operations the cells use.                          *)

\* a wrong arange, for the sensitivity of C1: the stop value is counted in,
\* floor(..) + 1 elements
arangeInclusive(start, stop, step) ==
  LET q == RDiv(RSub(stop, start), step)
      len == (q.n \div q.d) + 1
  IN  IF len <= 0 THEN <<>>
      ELSE [i \in 1..len |-> RAdd(start, RMul(Int2Rat(i - 1), step))]

\* numpy.arange(start, stop, step) for step # 0: ceil((stop - start)/step)
\* elements start + i*step, none when that length is not positive
arange(start, stop, step) ==
  LET len == RCeil(RDiv(RSub(stop, start), step))
  IN  IF len <= 0 THEN <<>>
      ELSE [i \in 1..len |-> RAdd(start, RMul(Int2Rat(i - 1), step))]

\* numpy.arange on floats: the length is computed from the float operands
\* fstart, fstop, fstep; the elements are kept exact
arange64(start, stop, step, fstart, fstop, fstep) ==
  LET cap == Abs(RCeil(RDiv(RSub(stop, start), step))) + 1
      len == FCeilDiv(FSub(fstop, fstart), fstep, cap)
  IN  [i \in 1..len |-> RAdd(start, RMul(Int2Rat(i - 1), step))]

\* def f(x): f=x**4; return f   (p is the exponent written in the cell)
f(p, x) == RPow(x, p)

\* f applied to a numpy array: elementwise
fArray(p, xs) == [i \in DOMAIN xs |-> f(p, xs[i])]

\* ys[lo] + ... + ys[hi]
RECURSIVE SumRange(_, _, _)
SumRange(ys, lo, hi) ==
  IF lo > hi THEN Int2Rat(0)
  ELSE IF lo = hi THEN ys[lo]
  ELSE LET mid == (lo + hi) \div 2
       IN  RAdd(SumRange(ys, lo, mid), SumRange(ys, mid + 1, hi))

\* a wrong sum, for the sensitivity of C10: the first term is left out
sumSkipFirst(ys) == SumRange(ys, 2, Len(ys))

\* the builtin sum(y): 0 + y[0] + y[1] + ...  Exact addition is associative,
\* so the terms are added by halves, which keeps the evaluation shallow.
sum(ys) == SumRange(ys, 1, Len(ys))

-----------------------------------------------------------------------------
(* The kernel: the module namespace the cells share, the output area of    *)
(* the cell executed last, the exception that ended it, and (for counting  *)
(* integrand evaluations) the points f was called at during that cell.     *)
(* A name holds <<>> while unbound and <<value>> once assigned.  The field *)
(* arith is the arithmetic the kernel computes with: "exact", or           *)
(* "binary64", in which the length of every arange is the one Python's     *)
(* floats give (all values stay exact).                                    *)

Arithmetics == {"exact", "binary64"}

Names ==
  {"arange", "np", "f", "a", "b", "N", "h", "x", "y", "integral1", "integral",
   "error_abs", "error_mc", "x_odd", "y_odd", "x_even", "y_even", "abs_error"}

FreshKernel(arith) ==
  [arith |-> arith, arange |-> <<>>, np |-> <<>>, f |-> <<>>, a |-> <<>>, b |-> <<>>, N |-> <<>>,
   h |-> <<>>, x |-> <<>>, y |-> <<>>, integral1 |-> <<>>, integral |-> <<>>,
   error_abs |-> <<>>, error_mc |-> <<>>, x_odd |-> <<>>, y_odd |-> <<>>,
   x_even |-> <<>>, y_even |-> <<>>, abs_error |-> <<>>,
   evals |-> <<>>, stdout |-> "", exc |-> "none"]

\* executing a cell clears its output area
CellStart(k) == [k EXCEPT !.evals = <<>>, !.stdout = "", !.exc = "none"]

Raise(k, e) == [k EXCEPT !.exc = e]

\* the value bound to a name
V(k, nm) == k[nm][1]

\* the names each statement reads
Reads(st) ==
  CASE st \in {"import_arange", "import_np", "import_arange_sin_pi", "def_f",
               "params"}     -> {}
    [] st = "h"              -> {"a", "b", "N"}
    [] st = "x"              -> {"arange", "a", "h", "b"}
    [] st = "x_np"           -> {"np", "a", "h", "b"}
    [] st = "y"              -> {"f", "x"}
    [] st = "integral1"      -> {"h", "f", "a", "b", "y"}
    [] st = "error_abs1"     -> {"integral1"}
    [] st = "print1"         -> {"integral1", "error_abs"}
    [] st = "integral"       -> {"h", "f", "a", "b", "y"}
    [] st = "error_abs"      -> {"integral"}
    [] st = "error_mc"       -> {"h"}
    [] st = "print2"         -> {"error_mc", "error_abs", "h"}
    [] st = "x_odd"          -> {"arange", "a", "h", "b"}
    [] st = "y_odd"          -> {"f", "x_odd"}
    [] st = "x_even"         -> {"arange", "a", "h", "b"}
    [] st = "y_even"         -> {"f", "x_even"}
    [] st = "integral_simpson" -> {"h", "f", "a", "b", "y_odd", "y_even"}
    [] st = "abs_error"      -> {"integral"}
    [] st = "print3"         -> {"integral", "abs_error", "h"}

\* arange(a+h,b,h)
InteriorNodes(k) ==
  LET a == V(k, "a")
      b == V(k, "b")
      h == V(k, "h")
  IN  IF k.arith = "exact" THEN arange(RAdd(a, h), b, h)
      ELSE arange64(RAdd(a, h), b, h,
                    FAdd(Float(a), Float(h)), Float(b), Float(h))

\* a wrong x_odd, for the sensitivity of C9: every interior node, stride h
OddNodesEveryNode(k) == arange(RAdd(V(k, "a"), V(k, "h")), V(k, "b"), V(k, "h"))

\* arange(a+h,b,2*h)
OddNodes(k) ==
  LET a == V(k, "a")
      b == V(k, "b")
      h == V(k, "h")
      h2 == RMul(Int2Rat(2), h)
  IN  IF k.arith = "exact" THEN arange(RAdd(a, h), b, h2)
      ELSE arange64(RAdd(a, h), b, h2,
                    FAdd(Float(a), Float(h)), Float(b), FDouble(Float(h)))

\* arange(a+2*h,b,2*h)
EvenNodes(k) ==
  LET a == V(k, "a")
      b == V(k, "b")
      h == V(k, "h")
      h2 == RMul(Int2Rat(2), h)
  IN  IF k.arith = "exact" THEN arange(RAdd(a, h2), b, h2)
      ELSE arange64(RAdd(a, h2), b, h2,
                    FAdd(Float(a), FDouble(Float(h))), Float(b),
                    FDouble(Float(h)))

\* a wrong error_mc, for the sensitivity of C8: h in place of h**2
McLaurinErrorFirstOrder(k) ==
  RAbs(RMul(RMul(Rat(1, 12), V(k, "h")), Int2Rat(0 - 4)))

\* abs((1/12)*(h**2)*(0 - 4))
McLaurinError(k) ==
  RAbs(RMul(RMul(Rat(1, 12), RPow(V(k, "h"), 2)), Int2Rat(0 - 4)))

\* f(a) + f(b), as both the Trapezoidal and the Simpson line evaluate it
EndpointSum(k) == RAdd(f(V(k, "f"), V(k, "a")), f(V(k, "f"), V(k, "b")))

\* a wrong Trapezoidal line, for the sensitivity of C6: endpoints at weight 1
TrapezoidValueFullEnds(k) ==
  RAdd(RMul(V(k, "h"), EndpointSum(k)), RMul(sum(V(k, "y")), V(k, "h")))

\* 0.5*h*(f(a)+f(b))+sum(y)*h
TrapezoidValue(k) ==
  RAdd(RMul(RMul(Rat(1, 2), V(k, "h")), EndpointSum(k)),
       RMul(sum(V(k, "y")), V(k, "h")))

\* a wrong Simpson line, for the sensitivity of C2: weights 4 and 2 exchanged
SimpsonValueSwapped(k) ==
  RMul(RMul(V(k, "h"), Rat(1, 3)),
       RAdd(RAdd(EndpointSum(k), RMul(Int2Rat(2), sum(V(k, "y_odd")))),
            RMul(Int2Rat(4), sum(V(k, "y_even")))))

\* h*(1./3.)*(f(a)+f(b)+4*sum(y_odd)+2*sum(y_even))
SimpsonValue(k) ==
  RMul(RMul(V(k, "h"), Rat(1, 3)),
       RAdd(RAdd(EndpointSum(k), RMul(Int2Rat(4), sum(V(k, "y_odd")))),
            RMul(Int2Rat(2), sum(V(k, "y_even")))))

\* the effect of one statement whose names are all bound; inp is the text
\* of the cell's editable lines: the exponent in f and a, b, N
Effect(k, st, inp) ==
  CASE st \in {"import_arange", "import_arange_sin_pi"} ->
         [k EXCEPT !.arange = <<"numpy.arange">>]
    [] st = "import_np" -> [k EXCEPT !.np = <<"numpy">>]
    [] st = "def_f" -> [k EXCEPT !.f = <<inp.f>>]
    [] st = "params" ->
         [k EXCEPT !.a = <<Int2Rat(inp.a)>>, !.b = <<Int2Rat(inp.b)>>,
                   !.N = <<Int2Rat(inp.N)>>]
    [] st = "h" ->
         IF V(k, "N").n = 0 THEN Raise(k, "ZeroDivisionError")
         ELSE [k EXCEPT !.h = <<RDiv(RSub(V(k, "b"), V(k, "a")), V(k, "N"))>>]
    [] st \in {"x", "x_np"} ->
         IF V(k, "h").n = 0 THEN Raise(k, "ZeroDivisionError")
         ELSE [k EXCEPT !.x = <<InteriorNodes(k)>>]
    [] st = "y" ->
         [k EXCEPT !.y = <<fArray(V(k, "f"), V(k, "x"))>>,
                   !.evals = @ \o V(k, "x")]
    [] st = "integral1" ->
         [k EXCEPT !.integral1 = <<TrapezoidValue(k)>>,
                   !.evals = @ \o <<V(k, "a"), V(k, "b")>>]
    [] st = "error_abs1" ->
         [k EXCEPT !.error_abs = <<RAbs(RSub(Rat(1, 5), V(k, "integral1")))>>]
    [] st = "print1" ->
         [k EXCEPT !.stdout =
            "predicted integral = " \o FmtE(V(k, "integral1"), 4)
              \o " , error = " \o FmtE(V(k, "error_abs"), 3)]
    [] st = "integral" ->
         [k EXCEPT !.integral = <<TrapezoidValue(k)>>,
                   !.evals = @ \o <<V(k, "a"), V(k, "b")>>]
    [] st = "error_abs" ->
         [k EXCEPT !.error_abs = <<RAbs(RSub(Rat(1, 5), V(k, "integral")))>>]
    [] st = "error_mc" ->
         [k EXCEPT !.error_mc = <<McLaurinError(k)>>]
    [] st = "print2" ->
         [k EXCEPT !.stdout =
            "Error McLaurin = " \o FmtE(V(k, "error_mc"), 10)
              \o " , actual error = " \o FmtE(V(k, "error_abs"), 10)
              \o ", binsize = " \o FmtE(V(k, "h"), 3)]
    [] st = "x_odd" ->
         IF V(k, "h").n = 0 THEN Raise(k, "ZeroDivisionError")
         ELSE [k EXCEPT !.x_odd = <<OddNodes(k)>>]
    [] st = "y_odd" ->
         [k EXCEPT !.y_odd = <<fArray(V(k, "f"), V(k, "x_odd"))>>,
                   !.evals = @ \o V(k, "x_odd")]
    [] st = "x_even" ->
         IF V(k, "h").n = 0 THEN Raise(k, "ZeroDivisionError")
         ELSE [k EXCEPT !.x_even = <<EvenNodes(k)>>]
    [] st = "y_even" ->
         [k EXCEPT !.y_even = <<fArray(V(k, "f"), V(k, "x_even"))>>,
                   !.evals = @ \o V(k, "x_even")]
    [] st = "integral_simpson" ->
         [k EXCEPT !.integral = <<SimpsonValue(k)>>,
                   !.evals = @ \o <<V(k, "a"), V(k, "b")>>]
    [] st = "abs_error" ->
         [k EXCEPT !.abs_error = <<RAbs(RSub(Rat(1, 5), V(k, "integral")))>>]
    [] st = "print3" ->
         [k EXCEPT !.stdout =
            "predicted integral = " \o FmtF(V(k, "integral"), 6)
              \o " , error = " \o FmtE(V(k, "abs_error"), 10)
              \o ", h = " \o FmtE(V(k, "h"), 10)]

\* one statement: skipped once an exception has ended the cell; reading an
\* unbound name raises NameError
Step(k, st, inp) ==
  IF k.exc # "none" THEN k
  ELSE IF \E nm \in Reads(st) : k[nm] = <<>> THEN Raise(k, "NameError")
  ELSE Effect(k, st, inp)

RECURSIVE Exec(_, _, _)
Exec(k, prog, inp) ==
  IF prog = <<>> THEN k
  ELSE Exec(Step(k, Head(prog), inp), Tail(prog), inp)

\* the three code cells, statement by statement
TrapezoidCell ==
  <<"import_arange", "def_f", "params", "h", "x", "y", "integral1",
    "error_abs1", "print1">>

McLaurinCell ==
  <<"import_np", "def_f", "params", "h", "x_np", "y", "integral", "error_abs",
    "error_mc", "print2">>

\* a wrong third cell, for the sensitivity of C7: the line h=(b-a)/N is
\* missing, so h is whatever an earlier cell left behind
SimpsonCellStaleH ==
  <<"import_arange_sin_pi", "def_f", "params", "x_odd", "y_odd", "x_even",
    "y_even", "integral_simpson", "abs_error", "print3">>

SimpsonCell ==
  <<"import_arange_sin_pi", "def_f", "params", "h", "x_odd", "y_odd", "x_even",
    "y_even", "integral_simpson", "abs_error", "print3">>

Program(cell) ==
  CASE cell = "trapezoid" -> TrapezoidCell
    [] cell = "mclaurin"  -> McLaurinCell
    [] cell = "simpson"   -> SimpsonCell

RunCell(k, cell, inp) == Exec(CellStart(k), Program(cell), inp)

-----------------------------------------------------------------------------
(* The cells as written, and as edited.                                    *)

\* the exponent in def f, and N in the first and third cell, as written
WrittenExponent == 4
WrittenN == 10

\* a=0;b=1;N=10 with f=x**4; n replaces the N of the parameter line
Written(n) == [f |-> WrittenExponent, a |-> 0, b |-> 1, N |-> n]

\* the N a session runs a cell with: as written, or edited to 0..MaxEditN
SessionN == {WrittenN} \cup 0..MaxEditN

\* the edits a cell is run with in a fresh kernel
Exponents == 1..WrittenExponent
Inputs == [f : Exponents, a : 0..MaxB, b : 0..MaxB, N : (0 - 1)..MaxN]

\* the second cell fixes a=0.0;b=1.0 and f=(x)**4: its error_mc line holds
\* f'(0) and f'(1)
McLaurinInputs == {Written(n) : n \in (0 - 1)..MaxN}

Init ==
  /\ ns \in {FreshKernel(arith) : arith \in Arithmetics}
  /\ last = [cell |-> "none", inp |-> Written(WrittenN)]

\* execute the first code cell (Trapezoidal rule)
RunTrapezoid(inp) ==
  /\ ns' = RunCell(ns, "trapezoid", inp)
  /\ last' = [cell |-> "trapezoid", inp |-> inp]

\* execute the second code cell (Trapezoidal rule, Euler-McLaurin error)
RunMcLaurin(inp) ==
  /\ ns' = RunCell(ns, "mclaurin", inp)
  /\ last' = [cell |-> "mclaurin", inp |-> inp]

\* execute the third code cell (Simpson rule)
RunSimpson(inp) ==
  /\ ns' = RunCell(ns, "simpson", inp)
  /\ last' = [cell |-> "simpson", inp |-> inp]

\* a notebook session: the cells run in any order, any number of times,
\* with N edited between runs
Next ==
  \/ \E n \in SessionN : RunTrapezoid(Written(n))
  \/ \E n \in SessionN : RunMcLaurin(Written(n))
  \/ \E n \in SessionN : RunSimpson(Written(n))

Spec == Init /\ [][Next]_vars

\* one cell run in a fresh kernel, over every edit of f, a, b and N
FreshNext ==
  \/ \E inp \in Inputs : last.cell = "none" /\ RunTrapezoid(inp)
  \/ \E inp \in McLaurinInputs : last.cell = "none" /\ RunMcLaurin(inp)
  \/ \E inp \in Inputs : last.cell = "none" /\ RunSimpson(inp)

FreshSpec == Init /\ [][FreshNext]_vars

-----------------------------------------------------------------------------
(* The quadrature formulas of the notebook's text, computed on integers    *)
(* over the common denominator N^p: with h = (b-a)/N and f = x**p,         *)
(* f(a+k*h) = (a*N + k*(b-a))^p / N^p.                                     *)

RECURSIVE IPow(_, _)
IPow(i, k) == IF k = 0 THEN 1 ELSE i * IPow(i, k - 1)

\* N^p * f(a+k*h)
ScaledNode(inp, k) == IPow(inp.a * inp.N + k * (inp.b - inp.a), inp.f)

\* N^p times the sum of f(a+k*h) over k = from, from+step, ... up to N-1
RECURSIVE ScaledNodeSum(_, _, _)
ScaledNodeSum(inp, from, step) ==
  IF from > inp.N - 1 THEN 0
  ELSE ScaledNode(inp, from) + ScaledNodeSum(inp, from + step, step)

\* the node a+k*h
Node(inp, k) == Rat(inp.a * inp.N + k * (inp.b - inp.a), inp.N)

\* h*(f(a)/2 + sum of f(a+k*h), k = 1..N-1, + f(b)/2)
TrapezoidFormula(inp) ==
  Rat((inp.b - inp.a)
        * (ScaledNode(inp, 0) + 2 * ScaledNodeSum(inp, 1, 1) + ScaledNode(inp, inp.N)),
      2 * IPow(inp.N, inp.f + 1))

\* (h/3)*(f(a) + 4*(sum over odd k) + 2*(sum over even k in 2..N-2) + f(b))
SimpsonFormula(inp) ==
  Rat((inp.b - inp.a)
        * (ScaledNode(inp, 0) + 4 * ScaledNodeSum(inp, 1, 2)
             + 2 * ScaledNodeSum(inp, 2, 2) + ScaledNode(inp, inp.N)),
      3 * IPow(inp.N, inp.f + 1))

\* the cell executed last ran the Trapezoidal rule (first or second cell)
RanTrapezoidal == last.cell \in {"trapezoid", "mclaurin"}

RanSimpson == last.cell = "simpson"

\* the value the Trapezoidal cell executed last assigned
TrapezoidResult ==
  IF last.cell = "trapezoid" THEN ns.integral1 ELSE ns.integral

ValidInterval == last.inp.a < last.inp.b

\* the cell executed last ran x**4 on [0,1]
OnUnitInterval ==
  last.inp.f = WrittenExponent /\ last.inp.a = 0 /\ last.inp.b = 1

EvenN == last.inp.N % 2 = 0

\* the kernel computes in exact arithmetic
ExactArithmetic == ns.arith = "exact"

\* the cell ran to its end and printed its result
Completed == ns.exc = "none" /\ ns.stdout # ""

\* the cell ended in an exception and printed no result
Rejected == ns.exc # "none" /\ ns.stdout = ""

-----------------------------------------------------------------------------
\* C1: in exact arithmetic, after the Trapezoidal cell ran with a < b and
\* N >= 1, x holds exactly
\* the interior nodes a+k*h, k = 1..N-1 (b is not among them), and the value
\* assigned is h*(f(a)/2 + sum of f(a+k*h) for k = 1..N-1 + f(b)/2); for
\* N = 1 x is empty and the value is h*(f(a)+f(b))/2.
C1_TrapezoidFormula ==
  (ExactArithmetic /\ RanTrapezoidal /\ ValidInterval /\ last.inp.N >= 1) =>
    /\ Completed
    /\ V(ns, "x") = [k \in 1..(last.inp.N - 1) |-> Node(last.inp, k)]
    /\ TrapezoidResult = <<TrapezoidFormula(last.inp)>>
    /\ last.inp.N = 1 =>
         /\ V(ns, "x") = <<>>
         /\ TrapezoidResult =
              <<RMul(RMul(V(ns, "h"), Rat(1, 2)), EndpointSum(ns))>>

C1_Witness ==
  /\ ExactArithmetic
  /\ last.cell = "trapezoid" /\ last.inp = [f |-> 4, a |-> 1, b |-> 2, N |-> 3]
  /\ V(ns, "x") = <<Rat(4, 3), Rat(5, 3)>>
  /\ Completed

\* C2: in exact arithmetic, after the Simpson cell ran with a < b and an
\* even N >= 2, x_odd holds
\* exactly the odd-indexed interior nodes and x_even exactly the even-indexed
\* ones (none when N = 2), the two share no node, neither holds a or b, and
\* the value assigned is (h/3)*(f(a) + 4*(odd sum) + 2*(even sum) + f(b)).
C2_SimpsonFormula ==
  (ExactArithmetic /\ RanSimpson /\ ValidInterval /\ last.inp.N >= 2 /\ EvenN) =>
    LET half == last.inp.N \div 2
        xo == V(ns, "x_odd")
        xe == V(ns, "x_even")
        ends == {V(ns, "a"), V(ns, "b")}
    IN  /\ Completed
        /\ xo = [i \in 1..half |-> Node(last.inp, 2 * i - 1)]
        /\ xe = [i \in 1..(half - 1) |-> Node(last.inp, 2 * i)]
        /\ last.inp.N = 2 => xe = <<>>
        /\ \A i \in DOMAIN xo : xo[i] \notin ends /\ \A j \in DOMAIN xe : xo[i] # xe[j]
        /\ \A j \in DOMAIN xe : xe[j] \notin ends
        /\ ns.integral = <<SimpsonFormula(last.inp)>>

C2_Witness ==
  /\ ExactArithmetic
  /\ RanSimpson /\ last.inp = [f |-> 4, a |-> 0, b |-> 2, N |-> 6]
  /\ V(ns, "x_odd") = <<Rat(1, 3), Rat(1, 1), Rat(5, 3)>>
  /\ V(ns, "x_even") = <<Rat(2, 3), Rat(4, 3)>>
  /\ Completed

\* C3: whenever the Simpson cell is run on a valid interval with an odd N or
\* with N < 2, it ends in an error and prints no integral value.  (Any
\* exception is counted as the rejection.)
C3_SimpsonRejectsBadN ==
  (RanSimpson /\ ValidInterval /\ (~EvenN \/ last.inp.N < 2)) => Rejected

\* the Simpson cell run with N = 7 on x**4, [0,1] prints an integral value
C3_Divergence ==
  /\ RanSimpson /\ last.inp = Written(7)
  /\ ns.exc = "none"
  /\ ns.stdout = "predicted integral = 0.165903 , error = 3.4096904068e-02, h = 1.4285714286e-01"

\* C4: whenever the Trapezoidal rule is run with a >= b or with N < 1, it
\* ends in an error and prints no integral value.  (Any exception is counted
\* as the rejection.)
C4_TrapezoidRejectsBadInput ==
  (RanTrapezoidal /\ (~ValidInterval \/ last.inp.N < 1)) => Rejected

\* the Trapezoidal cell run with a = 1, b = 0 on x**4 prints an integral value
C4_Divergence ==
  /\ last.cell = "trapezoid"
  /\ last.inp = [f |-> WrittenExponent, a |-> 1, b |-> 0, N |-> WrittenN]
  /\ ns.exc = "none"
  /\ ns.stdout = "predicted integral = -2.0333e-01 , error = 4.033e-01"

\* the points of a sequence are pairwise different
Distinct(xs) == \A i, j \in DOMAIN xs : i # j => xs[i] # xs[j]

\* every point of a sequence lies in [a, b]
WithinInterval(xs) ==
  \A i \in DOMAIN xs : RLe(V(ns, "a"), xs[i]) /\ RLe(xs[i], V(ns, "b"))

\* C5: on a valid partition each rule calls f at exactly N+1 points: the
\* Trapezoidal rule at a, b and N-1 interior points; Simpson's rule (N even,
\* N >= 2) at a, b, N/2 odd-indexed and N/2 - 1 even-indexed interior points.
\* No point is sampled twice and none lies outside [a, b].
C5_EvaluationCount ==
  /\ (RanTrapezoidal /\ ValidInterval /\ last.inp.N >= 1) =>
       /\ Len(V(ns, "x")) = last.inp.N - 1
       /\ ns.evals = V(ns, "x") \o <<V(ns, "a"), V(ns, "b")>>
       /\ Len(ns.evals) = last.inp.N + 1
       /\ Distinct(ns.evals) /\ WithinInterval(ns.evals)
  /\ (RanSimpson /\ ValidInterval /\ last.inp.N >= 2 /\ EvenN) =>
       /\ Len(V(ns, "x_odd")) = last.inp.N \div 2
       /\ Len(V(ns, "x_even")) = (last.inp.N \div 2) - 1
       /\ ns.evals = V(ns, "x_odd") \o V(ns, "x_even") \o <<V(ns, "a"), V(ns, "b")>>
       /\ Len(ns.evals) = last.inp.N + 1
       /\ Distinct(ns.evals) /\ WithinInterval(ns.evals)

\* with Python's floats the Trapezoidal cell run with N = 3 on [0,1] has b
\* among its interior points: f is called at five points, b twice
C5_Divergence ==
  /\ ns.arith = "binary64"
  /\ last.cell = "trapezoid" /\ last.inp = Written(3)
  /\ V(ns, "x") = <<Rat(1, 3), Rat(2, 3), Rat(1, 1)>>
  /\ Len(ns.evals) = 5
  /\ ns.exc = "none"

\* C6: as written (f = x**4 on [0,1], N = 10) the Trapezoidal cell prints
\* 2.0333e-01 with error 3.330e-03 and the Simpson cell prints 0.200013 with
\* error 1.3333333333e-05; the exact values are 20333/100000 (error
\* 333/100000) and 15001/75000 (error 1/75000).
C6_PublishedValues ==
  /\ (last.cell = "trapezoid" /\ last.inp = Written(WrittenN)) =>
       /\ ns.stdout = "predicted integral = 2.0333e-01 , error = 3.330e-03"
       /\ ns.integral1 = <<Rat(20333, 100000)>>
       /\ ns.error_abs = <<Rat(333, 100000)>>
  /\ (last.cell = "simpson" /\ last.inp = Written(WrittenN)) =>
       /\ ns.stdout = "predicted integral = 0.200013 , error = 1.3333333333e-05, h = 1.0000000000e-01"
       /\ ns.integral = <<Rat(15001, 75000)>>
       /\ ns.abs_error = <<Rat(1, 75000)>>

C6_Witness ==
  /\ last.cell = "simpson" /\ last.inp = Written(WrittenN)
  /\ ns.integral1 = <<Rat(20333, 100000)>>
  /\ ns.abs_error = <<Rat(1, 75000)>>

\* C7: after any sequence of executions of the three cells, in any order and
\* any number of times, the cell executed last has printed (and raised) what
\* it prints in a fresh kernel: no cell reads a name another run left behind.
C7_Deterministic ==
  last.cell # "none" =>
    LET fresh == RunCell(FreshKernel(ns.arith), last.cell, last.inp)
    IN  ns.stdout = fresh.stdout /\ ns.exc = fresh.exc

\* the first cell re-run as written after the other two ran with another N
C7_Witness ==
  /\ last.cell = "trapezoid" /\ last.inp = Written(WrittenN)
  /\ ns.error_mc = <<Rat(1, 12)>>
  /\ ns.x_odd = <<(<<Rat(1, 2)>>)>>
  /\ ns.stdout = "predicted integral = 2.0333e-01 , error = 3.330e-03"

\* C8: in exact arithmetic, for f = x**4 on [0,1] and every N >= 1, the exact integral minus the
\* Trapezoidal value is (h^2/12)*(f'(0) - f'(1)) = -h^2/3 plus a remainder of
\* h^4/30: error_abs and error_mc = h^2/3 differ by (1/30)*h^4.
C8_TrapezoidErrorModel ==
  (ExactArithmetic /\ last.cell = "mclaurin" /\ last.inp.N >= 1) =>
    LET h4 == RPow(V(ns, "h"), 4)
        h2 == RPow(V(ns, "h"), 2)
    IN  /\ ns.error_mc = <<RMul(Rat(1, 3), h2)>>
        /\ RSub(Rat(1, 5), V(ns, "integral"))
             = RAdd(RMul(RMul(Rat(1, 12), h2), Int2Rat(0 - 4)), RMul(Rat(1, 30), h4))
        /\ RAbs(RSub(V(ns, "error_abs"), V(ns, "error_mc"))) = RMul(Rat(1, 30), h4)

C8_Witness ==
  /\ ExactArithmetic
  /\ last.cell = "mclaurin" /\ last.inp.N = 10
  /\ ns.error_mc = <<Rat(1, 300)>>
  /\ ns.error_abs = <<Rat(333, 100000)>>

ErrorAt(cell, n) ==
  LET k == RunCell(FreshKernel("exact"), cell, Written(n))
  IN  IF cell = "simpson" THEN V(k, "abs_error") ELSE V(k, "error_abs")

\* the error the cell executed last has computed
ErrorNow == IF RanSimpson THEN V(ns, "abs_error") ELSE V(ns, "error_abs")

\* C10: in exact arithmetic, for f = x**4 on [0,1], the Trapezoidal error at N divided by the
\* error at 2N lies in [4 - h^2, 4) for every N >= 1, the Simpson error at N
\* is 16 times the error at 2N for every even N >= 2, and both errors
\* strictly decrease to the next bin count (N+1, and N+2 for Simpson).
C10_ConvergenceOrder ==
  /\ (ExactArithmetic /\ RanTrapezoidal /\ OnUnitInterval /\ last.inp.N >= 1) =>
       LET e2 == ErrorAt(last.cell, 2 * last.inp.N)
       IN  /\ RLt(ErrorNow, RMul(Int2Rat(4), e2))
           /\ RLe(RMul(RSub(Int2Rat(4), RPow(V(ns, "h"), 2)), e2), ErrorNow)
           /\ RLt(ErrorAt(last.cell, last.inp.N + 1), ErrorNow)
  /\ (ExactArithmetic /\ RanSimpson /\ OnUnitInterval /\ last.inp.N >= 2 /\ EvenN) =>
       /\ ErrorNow = RMul(Int2Rat(16), ErrorAt("simpson", 2 * last.inp.N))
       /\ RLt(ErrorAt("simpson", last.inp.N + 2), ErrorNow)

C10_Witness ==
  /\ ExactArithmetic
  /\ last.cell = "trapezoid" /\ OnUnitInterval /\ last.inp.N = 5
  /\ ErrorNow = Rat(83, 6250)
  /\ ErrorAt("trapezoid", 10) = Rat(333, 100000)

=============================================================================
